---- MODULE Spec2Model ----
(***************************************************************************)
(* State machine of the ImageToPDFTool component                           *)
(* (src/src/components/tools/image-to-pdf/ImageToPDFTool.tsx).             *)
(*                                                                         *)
(* The component's React state and its cancellation ref are the variables; *)
(* every event handler is one action.  handleConvert is asynchronous: the  *)
(* part before the await is one action (HandleConvert), the engine works   *)
(* image by image (EngineProcessImage, which calls the progress callback), *)
(* and the part after the await is one action per way the await can end    *)
(* (EngineResolveSuccess, EngineResolveFailure, EngineThrow).              *)
(*                                                                         *)
(* The conversion engine (imagesToPDF / imagesToPDFBatch) is imported from *)
(* @/lib/pdf/processors/image-to-pdf; it is modelled from the prose        *)
(* specification (sections 4.5 and 5).                                     *)
(***************************************************************************)
EXTENDS Integers, Sequences, FiniteSets

\* ------------------------------------------------------------------ bounds
MaxIds  == 2   \* file ids generateId() hands out in one behaviour
MaxRuns == 1   \* handleConvert calls that start a run in one behaviour

\* ------------------------------------------------------- program constants
InitialImagesPerPdf == 10
InitialMargin       == 36
InitialSvgScale     == 2

\* --------------------------------------------------------------- encodings
\* null | value of a nullable state: the empty sequence or a singleton.
Null    == <<>>
Some(x) == <<x>>

\* draggedIndex / dragOverIndex: null, or a 0-based index as in the code.
NoIndex == -1

\* What [draggedFile] = newFiles.splice(i, 1) binds when nothing was removed.
Undefined == 0

\* parseInt's result: NaN, or a number n as Some(n).
NaN == Null

\* setProgress(0); engine fractions are pairs <<processed, total>>.
ZeroProgress == <<0, 1>>

VARIABLES
    files,            \* UploadedFile[]: sequence of file ids (Undefined = a hole)
    nextId,           \* next id of generateId()
    status,           \* ProcessingStatus
    progress,         \* fraction <<num, den>>
    progressMessage,  \* string of the last accepted progress callback
    result,           \* Blob | null: Null or Some([run, pages])
    error,            \* string | null
    pageSize, orientation, margin, centerImage, scaleToFit, svgScale,
    batchMode,
    imagesPerPdf,
    batchResult,      \* BatchExportResult | null
    draggedIndex,
    dragOverIndex,
    cancelledRef,     \* cancelledRef.current
    runs,             \* one record per started handleConvert call
    lastDragOver,     \* history: index of the last handleDragOver of the drag
    errorBy           \* history: the run whose continuation last wrote error (0: none)

optVars  == <<pageSize, orientation, margin, centerImage, scaleToFit, svgScale>>
dragVars == <<draggedIndex, dragOverIndex, lastDragOver>>
vars == <<files, nextId, status, progress, progressMessage, result, error,
          optVars, batchMode, imagesPerPdf, batchResult, dragVars,
          cancelledRef, runs, errorBy>>

\* ----------------------------------------------------------------- helpers
Min(a, b) == IF a < b THEN a ELSE b
Max(a, b) == IF a > b THEN a ELSE b

Range(s) == {s[i] : i \in 1..Len(s)}

\* Math.ceil(n / g) for n >= 0, g >= 1
Ceil(n, g) == (n + g - 1) \div g

IsProcessing == status = "processing" \/ status = "uploading"
CanConvert   == Len(files) >= 1 /\ ~IsProcessing

\* The render maps over files and reads file.id of every entry (key={file.id});
\* an undefined entry throws there and the component is gone: no handler runs
\* and no state is written any more.
Mounted == \A i \in 1..Len(files) : files[i] # Undefined

\* ------------------------------------------------- pure functions of the code
\* Texts the images-per-PDF input can deliver as e.target.value: empty,
\* non-numeric, zero, negative, in range, above the list length, with leading
\* whitespace, with trailing junk.  (No "0x" prefix, which parseInt reads as
\* hexadecimal.)
InputTexts ==
    { <<>>, <<"a", "b">>, <<"0">>, <<"-", "3">>, <<"-", "0">>, <<"1">>, <<"2">>,
      <<"3">>, <<"1", "0">>, <<" ", "2">>, <<"3", "a">>, <<"-">> }

IsDigit(c) == c \in {"0", "1", "2", "3", "4", "5", "6", "7", "8", "9"}

DigitVal(c) ==
    CASE c = "0" -> 0 [] c = "1" -> 1 [] c = "2" -> 2 [] c = "3" -> 3
      [] c = "4" -> 4 [] c = "5" -> 5 [] c = "6" -> 6 [] c = "7" -> 7
      [] c = "8" -> 8 [] c = "9" -> 9

RECURSIVE SkipWhitespace(_)
SkipWhitespace(s) ==
    IF s # <<>> /\ Head(s) = " " THEN SkipWhitespace(Tail(s)) ELSE s

RECURSIVE TakeDigits(_)
TakeDigits(s) ==
    IF s # <<>> /\ IsDigit(Head(s)) THEN <<Head(s)>> \o TakeDigits(Tail(s)) ELSE <<>>

RECURSIVE DigitsValue(_, _)
DigitsValue(d, acc) ==
    IF d = <<>> THEN acc ELSE DigitsValue(Tail(d), 10 * acc + DigitVal(Head(d)))

\* parseInt(text): leading whitespace skipped, an optional sign, then the longest
\* run of decimal digits; NaN when there is none.
ParseInt(s) ==
    LET t      == SkipWhitespace(s)
        signed == t # <<>> /\ Head(t) \in {"-", "+"}
        neg    == t # <<>> /\ Head(t) = "-"
        d      == TakeDigits(IF signed THEN Tail(t) ELSE t)
    IN  IF d = <<>> THEN NaN
        ELSE Some((IF neg THEN -1 ELSE 1) * DigitsValue(d, 0))

\* parseInt(...) || 1 : NaN and 0 are falsy
OrOne(v) == IF v = NaN \/ v = Some(0) THEN 1 ELSE v[1]

\* The clamp without its Math.max(1, .) floor.
ClampNoFloor(text, len) == Min(len, OrOne(ParseInt(text)))
\* Math.max(1, Math.min(files.length, parseInt(e.target.value) || 1))
ClampImagesPerPdf(text, len) == Max(1, Min(len, OrOne(ParseInt(text))))

\* Array.prototype.splice(start, 1) on s (start 0-based, >= 0): what is removed
\* and what is left.
SpliceRemoved(s, start) ==
    IF start < Len(s) THEN <<s[start + 1]>> ELSE <<>>
SpliceRest(s, start) ==
    IF start < Len(s)
    THEN [i \in 1..(Len(s) - 1) |-> IF i <= start THEN s[i] ELSE s[i + 1]]
    ELSE s

\* Array.prototype.splice(start, 0, item): start is clamped to the length.
SpliceInsert(s, start, item) ==
    LET at == Min(start, Len(s))
    IN  [i \in 1..(Len(s) + 1) |->
            IF i <= at THEN s[i] ELSE IF i = at + 1 THEN item ELSE s[i - 1]]

\* The setFiles updater of handleDragEnd.
MoveFile(prev, from, to) ==
    LET removed     == SpliceRemoved(prev, from)
        draggedFile == IF removed = <<>> THEN Undefined ELSE removed[1]
    IN  SpliceInsert(SpliceRest(prev, from), to, draggedFile)

\* prev.filter(f => f.id !== id)
RECURSIVE FilterOut(_, _)
FilterOut(s, id) ==
    IF s = <<>> THEN <<>>
    ELSE IF Head(s) = id THEN FilterOut(Tail(s), id)
         ELSE <<Head(s)>> \o FilterOut(Tail(s), id)

\* A File object is identified by the id of the UploadedFile that wraps it.
FileOf(f) == f

\* files.map(f => f.file): a fresh array with the File of every entry, in order.
Snapshot(fs) == [i \in 1..Len(fs) |-> FileOf(fs[i])]

\* ------------------------------------------------------------ the engine
\* Consecutive groups of groupSize images, the last one possibly smaller.
RECURSIVE Partition(_, _)
Partition(s, g) ==
    IF s = <<>> THEN <<>>
    ELSE IF Len(s) <= g THEN <<s>>
         ELSE <<SubSeq(s, 1, g)>> \o Partition(SubSeq(s, g + 1, Len(s)), g)

\* The BatchExportResult of a finished batch run: one document per group.
BatchExport(r, pages, g) ==
    LET docs == Partition(pages, g)
    IN  [run |-> r, zipBlob |-> docs, pdfCount |-> Len(docs), imageCount |-> Len(pages)]

\* The Blob of a finished single-mode run: one page per image, in input order.
PdfBlob(r, pages) == [run |-> r, pages |-> pages]

\* The status text the engine passes with a fraction; its wording is the
\* engine's and is not told apart here.
ProgressText(done, total) == "Processing image"

\* What a failed outcome carries in output.error?.message ("" : nothing truthy).
FailureMessages == {"", "decode error"}

\* What the awaited call can throw: an Error with a message, or another value.
Thrown == {[isError |-> TRUE, message |-> ""],
           [isError |-> TRUE, message |-> "decode error"],
           [isError |-> FALSE, message |-> ""]}

\* ------------------------------------------------------------------- runs
\* A run is one handleConvert call that got past validation.
\*   mode, input, groupSize, options : the branch taken and the arguments of
\*       the engine call
\*   pages     : the images the engine has processed so far, in order
\*   inFlight  : the await has not ended yet
\*   history   : startFiles (files at the call), fired (a progress callback was
\*       invoked), cancelled (handleCancel was called while the run was in
\*       flight), cancelledEarly (... before any progress callback),
\*       workAfterCancel (the last image was processed after handleCancel)
NewRun(mode, input, g, opts, start) ==
    [mode |-> mode, input |-> input, groupSize |-> g, options |-> opts,
     pages |-> <<>>, inFlight |-> TRUE, startFiles |-> start, fired |-> FALSE,
     cancelled |-> FALSE, cancelledEarly |-> FALSE, workAfterCancel |-> FALSE]

\* A run whose await has ended keeps only cancelled and cancelledEarly.
Ended(run) ==
    [run EXCEPT !.inFlight = FALSE, !.mode = "single", !.input = <<>>,
                !.pages = <<>>, !.startFiles = <<>>, !.groupSize = 1,
                !.options = Null, !.fired = FALSE, !.workAfterCancel = FALSE]

InFlight == {r \in 1..Len(runs) : runs[r].inFlight}

Options ==
    [pageSize |-> pageSize, orientation |-> orientation, margin |-> margin,
     centerImage |-> centerImage, scaleToFit |-> scaleToFit, svgScale |-> svgScale]

\* ------------------------------------------------------------------- Init
Init ==
    /\ files = <<>>
    /\ nextId = 1
    /\ status = "idle"
    /\ progress = ZeroProgress
    /\ progressMessage = ""
    /\ result = Null
    /\ error = Null
    /\ pageSize = "A4"
    /\ orientation = "auto"
    /\ margin = InitialMargin
    /\ centerImage = TRUE
    /\ scaleToFit = TRUE
    /\ svgScale = InitialSvgScale
    /\ batchMode = FALSE
    /\ imagesPerPdf = InitialImagesPerPdf
    /\ batchResult = Null
    /\ draggedIndex = NoIndex
    /\ dragOverIndex = NoIndex
    /\ lastDragOver = NoIndex
    /\ cancelledRef = FALSE
    /\ runs = <<>>
    /\ errorBy = 0

\* ------------------------------------------------------- file list handlers
\* handleFilesSelected(newFiles): k files picked in the uploader.
HandleFilesSelected(k) ==
    /\ Mounted
    /\ ~IsProcessing                      \* FileUploader disabled={isProcessing}
    /\ nextId + k - 1 <= MaxIds
    /\ files' = files \o [i \in 1..k |-> nextId + i - 1]
    /\ nextId' = nextId + k
    /\ error' = Null
    /\ errorBy' = 0
    /\ result' = Null
    /\ UNCHANGED <<status, progress, progressMessage, optVars, batchMode,
                   imagesPerPdf, batchResult, dragVars, cancelledRef, runs>>

\* handleUploadError(errorMessage)
HandleUploadError(msg) ==
    /\ Mounted
    /\ ~IsProcessing                      \* FileUploader disabled={isProcessing}
    /\ error' = Some(msg)
    /\ errorBy' = 0
    /\ UNCHANGED <<files, nextId, status, progress, progressMessage, result,
                   optVars, batchMode, imagesPerPdf, batchResult, dragVars,
                   cancelledRef, runs>>

\* handleRemoveFile(id): the remove button of a listed file.
HandleRemoveFile(id) ==
    /\ Mounted
    /\ ~IsProcessing                      \* button disabled={isProcessing}
    /\ id \in Range(files)
    /\ files' = FilterOut(files, id)
    /\ result' = Null
    /\ UNCHANGED <<nextId, status, progress, progressMessage, error, errorBy,
                   optVars, batchMode, imagesPerPdf, batchResult, dragVars,
                   cancelledRef, runs>>

\* handleClearAll: the button is rendered with the list (files.length > 0).
HandleClearAll ==
    /\ Mounted
    /\ ~IsProcessing                      \* button disabled={isProcessing}
    /\ Len(files) > 0
    /\ files' = <<>>
    /\ result' = Null
    /\ batchResult' = Null
    /\ error' = Null
    /\ errorBy' = 0
    /\ status' = "idle"
    /\ progress' = ZeroProgress
    /\ UNCHANGED <<nextId, progressMessage, optVars, batchMode, imagesPerPdf,
                   dragVars, cancelledRef, runs>>

\* ------------------------------------------------------------ drag handlers
\* handleDragStart(index): items are draggable={!isProcessing}.
HandleDragStart(index) ==
    /\ Mounted
    /\ ~IsProcessing
    /\ index \in 0..(Len(files) - 1)
    /\ draggedIndex' = index
    /\ lastDragOver' = NoIndex
    /\ UNCHANGED <<files, nextId, status, progress, progressMessage, result,
                   error, errorBy, optVars, batchMode, imagesPerPdf, batchResult,
                   dragOverIndex, cancelledRef, runs>>

\* handleDragOver(e, index)
HandleDragOver(index) ==
    /\ Mounted
    /\ index \in 0..(Len(files) - 1)
    /\ dragOverIndex' = IF draggedIndex # NoIndex /\ draggedIndex # index
                        THEN index ELSE dragOverIndex
    /\ lastDragOver' = index
    /\ UNCHANGED <<files, nextId, status, progress, progressMessage, result,
                   error, errorBy, optVars, batchMode, imagesPerPdf, batchResult,
                   draggedIndex, cancelledRef, runs>>

\* handleDragEnd: dragend follows a dragstart.
HandleDragEnd ==
    /\ Mounted
    /\ draggedIndex # NoIndex
    /\ files' = IF dragOverIndex # NoIndex /\ draggedIndex # dragOverIndex
                THEN MoveFile(files, draggedIndex, dragOverIndex)
                ELSE files
    /\ draggedIndex' = NoIndex
    /\ dragOverIndex' = NoIndex
    /\ lastDragOver' = NoIndex
    /\ UNCHANGED <<nextId, status, progress, progressMessage, result, error,
                   errorBy, optVars, batchMode, imagesPerPdf, batchResult,
                   cancelledRef, runs>>

\* ------------------------------------------------------------ batch options
\* The batch checkbox: rendered when files.length > 1.
SetBatchMode(checked) ==
    /\ Mounted
    /\ ~IsProcessing                      \* disabled={isProcessing}
    /\ Len(files) > 1
    /\ batchMode' = checked
    /\ UNCHANGED <<files, nextId, status, progress, progressMessage, result,
                   error, errorBy, optVars, imagesPerPdf, batchResult, dragVars,
                   cancelledRef, runs>>

\* onChange of the images-per-PDF input: rendered when files.length > 1 and
\* batchMode.
SetImagesPerPdf(text) ==
    /\ Mounted
    /\ ~IsProcessing                      \* disabled={isProcessing}
    /\ Len(files) > 1
    /\ batchMode
    /\ imagesPerPdf' = ClampImagesPerPdf(text, Len(files))
    /\ UNCHANGED <<files, nextId, status, progress, progressMessage, result,
                   error, errorBy, optVars, batchMode, batchResult, dragVars,
                   cancelledRef, runs>>

\* ------------------------------------------------------------ handleConvert
\* if (batchMode && files.length > imagesPerPdf)
UseBatch(n) == batchMode /\ n > imagesPerPdf

\* The size of the groups the engine forms: imagesPerPdf in the batch call; the
\* single call is the engine's one-group case, all n images in one document.
GroupSize(n) == IF UseBatch(n) THEN imagesPerPdf ELSE n

\* if (cancelledRef.current) after the await
CancelledAfterAwait == cancelledRef

\* if (!cancelledRef.current) in the progress callback
ProgressAccepted == ~cancelledRef

\* The catch block never reporting.
CatchReportsNever == FALSE
\* The catch block reporting whatever the flag says.
CatchReportsAlways == TRUE
\* if (!cancelledRef.current) in the catch block
CatchReports == ~cancelledRef

\* output.error?.message || fallback
FailureText(msg, fallback) == IF msg = "" THEN fallback ELSE msg

\* err instanceof Error ? err.message : 'An unexpected error occurred.'
ThrownText(err) ==
    IF err.isError THEN err.message ELSE "An unexpected error occurred."

\* The failure fallback of each branch.
Fallback(mode) ==
    IF mode = "batch" THEN "Failed to create batch PDFs."
    ELSE "Failed to convert images to PDF."

\* handleConvert without its validation of an empty list.
HandleConvertUnchecked(cap) ==
    /\ Mounted
    /\ CanConvert \/ Len(files) < 1
    /\ Len(runs) < cap
    /\ cancelledRef' = FALSE
    /\ status' = "processing"
    /\ progress' = ZeroProgress
    /\ error' = Null
    /\ errorBy' = 0
    /\ result' = Null
    /\ batchResult' = Null
    /\ runs' = Append(runs,
           NewRun(IF batchMode /\ Len(files) > imagesPerPdf THEN "batch" ELSE "single",
                  [i \in 1..Len(files) |-> files[i]],
                  IF batchMode /\ Len(files) > imagesPerPdf
                  THEN imagesPerPdf ELSE Len(files),
                  [pageSize |-> pageSize, orientation |-> orientation,
                   margin |-> margin, centerImage |-> centerImage,
                   scaleToFit |-> scaleToFit, svgScale |-> svgScale],
                  files))
    /\ UNCHANGED <<files, nextId, progressMessage, optVars, batchMode,
                   imagesPerPdf, dragVars>>

\* handleConvert up to the await.  The button is disabled unless canConvert; the
\* handler's own validation of an empty list is kept reachable.  cap bounds the
\* runs started in one behaviour.
HandleConvert(cap) ==
    /\ Mounted
    /\ CanConvert \/ Len(files) < 1
    /\ IF Len(files) < 1
       THEN /\ error' = Some("Please add at least 1 image file.")
            /\ errorBy' = 0
            /\ UNCHANGED <<files, nextId, status, progress, progressMessage,
                           result, optVars, batchMode, imagesPerPdf, batchResult,
                           dragVars, cancelledRef, runs>>
       ELSE /\ Len(runs) < cap
            /\ cancelledRef' = FALSE
            /\ status' = "processing"
            /\ progress' = ZeroProgress
            /\ error' = Null
            /\ errorBy' = 0
            /\ result' = Null
            /\ batchResult' = Null
            /\ runs' = Append(runs,
                   NewRun(IF UseBatch(Len(files)) THEN "batch" ELSE "single",
                          Snapshot(files), GroupSize(Len(files)), Options, files))
            /\ UNCHANGED <<files, nextId, progressMessage, optVars, batchMode,
                           imagesPerPdf, dragVars>>

\* handleCancel: the cancel button of ProcessingProgress, rendered while
\* isProcessing.  Every run in flight reads the one flag it sets.
HandleCancel ==
    /\ Mounted
    /\ IsProcessing
    /\ cancelledRef' = TRUE
    /\ status' = "idle"
    /\ progress' = ZeroProgress
    /\ runs' = [r \in 1..Len(runs) |->
                  IF runs[r].inFlight /\ ~runs[r].cancelled
                  THEN [runs[r] EXCEPT !.cancelled = TRUE,
                                       !.cancelledEarly = ~runs[r].fired]
                  ELSE runs[r]]
    /\ UNCHANGED <<files, nextId, progressMessage, result, error, errorBy,
                   optVars, batchMode, imagesPerPdf, batchResult, dragVars>>

\* ------------------------------------------------- the engine, run by run
\* The engine iterating the component's current list instead.
EngineInputShared(r) == Snapshot(files)
\* The list the engine of run r iterates: the array built at the call.
EngineInput(r) == runs[r].input

\* The engine processes the next image of run r and calls onProgress(fraction,
\* message).  handleConvert passes the engine no cancellation flag or signal.
EngineProcessImage(r) ==
    /\ Mounted
    /\ r \in InFlight
    /\ Len(runs[r].pages) < Len(EngineInput(r))
    /\ LET done == Len(runs[r].pages) + 1
           total == Len(EngineInput(r))
       IN  /\ runs' = [runs EXCEPT ![r].pages = Append(@, EngineInput(r)[done]),
                                   ![r].fired = TRUE,
                                   ![r].workAfterCancel = runs[r].cancelled]
           /\ IF ProgressAccepted
              THEN /\ progress' = <<done, total>>
                   /\ progressMessage' = ProgressText(done, total)
              ELSE UNCHANGED <<progress, progressMessage>>
    /\ UNCHANGED <<files, nextId, status, result, error, errorBy, optVars,
                   batchMode, imagesPerPdf, batchResult, dragVars, cancelledRef>>

\* The await ends with { success: true, result }.
EngineResolveSuccess(r) ==
    /\ Mounted
    /\ r \in InFlight
    /\ Len(runs[r].pages) = Len(EngineInput(r))
    /\ runs' = [runs EXCEPT ![r] = Ended(@)]
    /\ IF CancelledAfterAwait
       THEN /\ status' = "idle"
            /\ UNCHANGED <<result, batchResult>>
       ELSE /\ status' = "complete"
            /\ IF runs[r].mode = "batch"
               THEN /\ batchResult' =
                          Some(BatchExport(r, runs[r].pages, runs[r].groupSize))
                    /\ UNCHANGED result
               ELSE /\ result' = Some(PdfBlob(r, runs[r].pages))
                    /\ UNCHANGED batchResult
    /\ UNCHANGED <<files, nextId, progress, progressMessage, error, errorBy,
                   optVars, batchMode, imagesPerPdf, dragVars, cancelledRef>>

\* The await ends with a failed outcome (success false, or no result).
EngineResolveFailure(r, msg) ==
    /\ Mounted
    /\ r \in InFlight
    /\ runs' = [runs EXCEPT ![r] = Ended(@)]
    /\ IF CancelledAfterAwait
       THEN /\ status' = "idle"
            /\ UNCHANGED <<error, errorBy>>
       ELSE /\ error' = Some(FailureText(msg, Fallback(runs[r].mode)))
            /\ errorBy' = r
            /\ status' = "error"
    /\ UNCHANGED <<files, nextId, progress, progressMessage, result, optVars,
                   batchMode, imagesPerPdf, batchResult, dragVars, cancelledRef>>

\* The awaited call throws err.
EngineThrow(r, err) ==
    /\ Mounted
    /\ r \in InFlight
    /\ runs' = [runs EXCEPT ![r] = Ended(@)]
    /\ IF CatchReports
       THEN /\ error' = Some(ThrownText(err))
            /\ errorBy' = r
            /\ status' = "error"
       ELSE UNCHANGED <<error, errorBy, status>>
    /\ UNCHANGED <<files, nextId, progress, progressMessage, result, optVars,
                   batchMode, imagesPerPdf, batchResult, dragVars, cancelledRef>>

\* ------------------------------------------------------------ specification
UploadErrors == {"File type not supported."}

\* Every handler, with at most MaxRuns conversions started.
Next ==
    \/ \E k \in 1..MaxIds : HandleFilesSelected(k)
    \/ \E msg \in UploadErrors : HandleUploadError(msg)
    \/ \E id \in 1..MaxIds : HandleRemoveFile(id)
    \/ HandleClearAll
    \/ \E b \in BOOLEAN : SetBatchMode(b)
    \/ \E text \in InputTexts : SetImagesPerPdf(text)
    \/ HandleConvert(MaxRuns)
    \/ HandleCancel
    \/ \E r \in 1..Len(runs) : EngineProcessImage(r)
    \/ \E r \in 1..Len(runs) : EngineResolveSuccess(r)
    \/ \E r \in 1..Len(runs), msg \in FailureMessages : EngineResolveFailure(r, msg)
    \/ \E r \in 1..Len(runs), err \in Thrown : EngineThrow(r, err)
    \/ \E i \in 0..(MaxIds - 1) : HandleDragStart(i)
    \/ \E i \in 0..(MaxIds - 1) : HandleDragOver(i)
    \/ HandleDragEnd

Spec == Init /\ [][Next]_vars

\* The same without the drag handlers.
NextLifecycle ==
    \/ \E k \in 1..MaxIds : HandleFilesSelected(k)
    \/ \E msg \in UploadErrors : HandleUploadError(msg)
    \/ \E id \in 1..MaxIds : HandleRemoveFile(id)
    \/ HandleClearAll
    \/ \E b \in BOOLEAN : SetBatchMode(b)
    \/ \E text \in InputTexts : SetImagesPerPdf(text)
    \/ HandleConvert(MaxRuns)
    \/ HandleCancel
    \/ \E r \in 1..Len(runs) : EngineProcessImage(r)
    \/ \E r \in 1..Len(runs) : EngineResolveSuccess(r)
    \/ \E r \in 1..Len(runs), msg \in FailureMessages : EngineResolveFailure(r, msg)
    \/ \E r \in 1..Len(runs), err \in Thrown : EngineThrow(r, err)

SpecLifecycle == Init /\ [][NextLifecycle]_vars

\* The same with one more conversion, so that a new run can start while a
\* cancelled one is still in flight.
NextRace ==
    \/ \E k \in 1..MaxIds : HandleFilesSelected(k)
    \/ \E msg \in UploadErrors : HandleUploadError(msg)
    \/ \E id \in 1..MaxIds : HandleRemoveFile(id)
    \/ HandleClearAll
    \/ \E b \in BOOLEAN : SetBatchMode(b)
    \/ \E text \in InputTexts : SetImagesPerPdf(text)
    \/ HandleConvert(MaxRuns + 1)
    \/ HandleCancel
    \/ \E r \in 1..Len(runs) : EngineProcessImage(r)
    \/ \E r \in 1..Len(runs) : EngineResolveSuccess(r)
    \/ \E r \in 1..Len(runs), msg \in FailureMessages : EngineResolveFailure(r, msg)
    \/ \E r \in 1..Len(runs), err \in Thrown : EngineThrow(r, err)

SpecRace == Init /\ [][NextRace]_vars

\* ================================================================== claims
IsPrefix(p, s) == Len(p) <= Len(s) /\ \A i \in 1..Len(p) : p[i] = s[i]

Latest == Len(runs)

\* C1: the output of a run for which handleCancel was issued is never stored in
\* result or batchResult (status 'complete' is written only together with one
\* of the two), whatever the interleaving of handleConvert, handleCancel and
\* the engine's completions.
C1_NoOutputFromCancelledRun ==
    /\ result # Null => ~runs[result[1].run].cancelled
    /\ batchResult # Null => ~runs[batchResult[1].run].cancelled

\* C2: once handleCancel has set the flag, the engine processes no further image
\* of a run that was in flight then.
C2_NoWorkAfterCancel ==
    \A r \in 1..Len(runs) : ~runs[r].workAfterCancel

\* C3: when handleCancel came before any progress callback of the latest run and
\* no conversion was started since, status is 'idle', progress is 0, result and
\* batchResult are null and error was not written by that run, however the
\* engine ends.
C3_EarlyCancelNoEffects ==
    (Latest > 0 /\ runs[Latest].cancelledEarly) =>
        /\ status = "idle"
        /\ progress = ZeroProgress
        /\ result = Null
        /\ batchResult = Null
        /\ errorBy # Latest

\* C3 witness: the latest run was cancelled before any progress callback and its
\* await has ended since.
C3_Witness ==
    Latest > 0 /\ runs[Latest].cancelledEarly /\ ~runs[Latest].inFlight

\* C4: a failure delivered by a run after handleCancel was issued for it never
\* writes the error message (nor status 'error', written with it).
C4_CancelBeatsLateError ==
    errorBy > 0 => ~runs[errorBy].cancelled

\* C5: whenever result is non-null, the sequence of files it was produced from
\* equals the current files list, element for element.
C5_ResultMatchesShownOrder ==
    result # Null => result[1].pages = Snapshot(files)

\* C6: the engine of every run in flight holds the files list of the moment
\* handleConvert started, and what it has processed is a prefix of that list,
\* whatever happened to the files list since.
C6_RunProcessesStartSnapshot ==
    \A r \in InFlight :
        /\ runs[r].input = Snapshot(runs[r].startFiles)
        /\ IsPrefix(runs[r].pages, Snapshot(runs[r].startFiles))

\* C6 witness: a run in flight has processed its whole input although the files
\* list is no longer the one it started from.
C6_Witness ==
    \E r \in InFlight :
        /\ files # runs[r].startFiles
        /\ files # <<>>
        /\ Len(runs[r].pages) = Len(runs[r].startFiles)
        /\ runs[r].workAfterCancel

\* C7: when a conversion ends in success while batch mode is enabled with
\* n >= 2 files and group size g, it stores an archive in batchResult, not a PDF
\* in result, and the archive's pdfCount is ceil(n / g), the count of the hint.
C7_BatchModeYieldsArchive ==
    [][( /\ status = "processing"
         /\ status' = "complete"
         /\ batchMode
         /\ Len(files) >= 2 )
       => /\ result' = Null
          /\ batchResult' # Null
          /\ batchResult'[1].pdfCount = Ceil(Len(files), imagesPerPdf)]_vars

\* C8: handleConvert on an empty files list writes the validation message and
\* nothing else: no run starts, and status, progress, result, batchResult and
\* the cancellation flag keep their values.
C8_EmptyInputOnlyReports ==
    [][(Len(files) < 1 /\ HandleConvert(MaxRuns)) =>
          /\ error' = Some("Please add at least 1 image file.")
          /\ UNCHANGED <<runs, status, progress, result, batchResult,
                         cancelledRef>>]_vars

\* C8 witness: the validation message is shown.
C8_Witness ==
    /\ error = Some("Please add at least 1 image file.")
    /\ files = <<>>
    /\ runs = <<>>

\* C9: imagesPerPdf is at least 1 in every reachable state, and so is the group
\* size of every batch run.
C9_GroupSizePositive ==
    /\ imagesPerPdf >= 1
    /\ \A r \in InFlight : runs[r].mode = "batch" => runs[r].groupSize >= 1

\* C9 witness: the input was edited and a batch run is in flight with the
\* edited group size.
C9_Witness ==
    /\ imagesPerPdf = 1
    /\ \E r \in InFlight : runs[r].mode = "batch" /\ runs[r].groupSize = 1

\* C10: when a run that was not cancelled ends otherwise than in success,
\* status becomes 'error', error holds a non-empty message, and result and
\* batchResult are not written.
C10_FailureReported ==
    [][\A r \in 1..Len(runs) :
          ( /\ runs[r].inFlight
            /\ ~runs[r].cancelled
            /\ ~runs'[r].inFlight
            /\ status' # "complete" )
          => /\ status' = "error"
             /\ error' # Null
             /\ error'[1] # ""
             /\ UNCHANGED <<result, batchResult>>]_vars

\* C11: the outcome shown is a success or a failure, never both: status 'error'
\* never stands together with a non-null result or batchResult.
C11_ErrorExcludesOutput ==
    status = "error" => (result = Null /\ batchResult = Null)

\* Fractions <<a, b>> and <<c, d>> with positive denominators: a/b <= c/d.
FractionLeq(p, q) == p[1] * q[2] <= q[1] * p[2]

\* C12: while status stays 'processing' (from handleConvert's setProgress(0) to
\* the outcome or the cancellation), no step lowers the displayed progress.
C12_ProgressNeverDecreases ==
    [][(status = "processing" /\ status' = "processing")
          => FractionLeq(progress, progress')]_vars

\* ---------------------------------------------------------- download naming
\* file.name of the File behind each id, as a sequence of characters: a plain
\* extension, two dots, no dot, a trailing dot.
FileName(f) ==
    CASE f = 1 -> <<"a", ".", "p", "n", "g">>
      [] f = 2 -> <<"b", ".", "c", ".", "s", "v", "g">>
      [] f = 3 -> <<"d">>
      [] OTHER -> <<"e", ".">>

\* Index of the last "." of name, 0 when there is none.
LastDot(name) ==
    LET dots == {i \in 1..Len(name) : name[i] = "."}
    IN  IF dots = {} THEN 0 ELSE CHOOSE i \in dots : \A j \in dots : j <= i

\* name.replace(/\.[^/.]+$/, ''): a final "." followed by one or more characters
\* other than "/" and "." is cut off with what follows it.
StripExtension(name) ==
    LET i == LastDot(name)
    IN  IF /\ i > 0
           /\ i < Len(name)
           /\ \A j \in (i + 1)..Len(name) : name[j] # "/"
        THEN SubSeq(name, 1, i - 1)
        ELSE name

\* `${n}` for n >= 0: the decimal digits of n.
RECURSIVE ToDecimal(_)
ToDecimal(n) ==
    LET d == <<"0", "1", "2", "3", "4", "5", "6", "7", "8", "9">>[(n % 10) + 1]
    IN  IF n < 10 THEN <<d>> ELSE ToDecimal(n \div 10) \o <<d>>

\* The filename prop of the result's DownloadButton, from the list names.
FileNameFor(names) ==
    IF Len(names) = 1
    THEN StripExtension(names[1]) \o <<".", "p", "d", "f">>
    ELSE <<"i", "m", "a", "g", "e", "s", "_">> \o ToDecimal(Len(names))
            \o <<"_", "p", "a", "g", "e", "s", ".", "p", "d", "f">>

\* The names the render reads: files[i].file.name of the current list.
DownloadFileName == FileNameFor([i \in 1..Len(files) |-> FileName(files[i])])

\* C13: whenever result is non-null, the file name offered with it is the one
\* of the input of the run that produced it: the single source name without
\* its extension plus '.pdf', or 'images_<N>_pages.pdf' for N input files.
\* (Nothing is offered once the render has thrown.)
C13_NameFollowsProducingRun ==
    (result # Null /\ Mounted) =>
        DownloadFileName =
            FileNameFor([i \in 1..Len(result[1].pages) |->
                            FileName(result[1].pages[i])])

\* ------------------------------------------------------------ page options
\* The <option value> sets of the selects.
PageSizeValues    == {"A4", "LETTER", "LEGAL", "A3", "A5", "FIT"}
OrientationValues == {"auto", "portrait", "landscape"}
MarginValues      == {<<"0">>, <<"1", "8">>, <<"3", "6">>, <<"7", "2">>}
\* The quality select offering a zero scale as well.
SvgScaleValuesWithZero == {<<"0">>, <<"1">>, <<"2">>, <<"3">>, <<"4">>}
SvgScaleValues    == {<<"1">>, <<"2">>, <<"3">>, <<"4">>}

\* Number(text) of an option value: blank text is 0, an optionally signed run
\* of decimal digits is its value, anything else NaN.
ToNumber(text) ==
    LET t      == SkipWhitespace(text)
        signed == t # <<>> /\ Head(t) \in {"-", "+"}
        neg    == t # <<>> /\ Head(t) = "-"
        body   == IF signed THEN Tail(t) ELSE t
        d      == TakeDigits(body)
    IN  IF t = <<>> THEN 0
        ELSE IF d = <<>> \/ Len(d) # Len(body) THEN NaN
        ELSE (IF neg THEN -1 ELSE 1) * DigitsValue(d, 0)

\* String.prototype.toLowerCase on the letters that occur in the names.
ToLowerCase(s) ==
    [i \in 1..Len(s) |->
        CASE s[i] = "S" -> "s" [] s[i] = "V" -> "v" [] s[i] = "G" -> "g"
          [] OTHER -> s[i]]

\* String.prototype.endsWith
EndsWith(s, suffix) ==
    /\ Len(suffix) <= Len(s)
    /\ SubSeq(s, Len(s) - Len(suffix) + 1, Len(s)) = suffix

\* file.type of the File behind each id.
FileType(f) ==
    CASE f = 1 -> "image/png"
      [] f = 2 -> ""
      [] f = 3 -> "image/svg+xml"
      [] OTHER -> ""

\* The imageType prop: optional, not passed.
ImageType == Null

\* imageType === 'svg' || files.some(f => f.file.name.toLowerCase()
\*     .endsWith('.svg') || f.file.type === 'image/svg+xml')
ShowSvgQuality ==
    \/ ImageType = Some("svg")
    \/ \E i \in 1..Len(files) :
          \/ EndsWith(ToLowerCase(FileName(files[i])), <<".", "s", "v", "g">>)
          \/ FileType(files[i]) = "image/svg+xml"

\* The options panel is rendered when files.length >= 1; every control in it is
\* disabled={isProcessing}.
OptionsEnabled == Mounted /\ Len(files) >= 1 /\ ~IsProcessing

nonOptVars == <<files, nextId, status, progress, progressMessage, result, error,
                errorBy, batchMode, imagesPerPdf, batchResult, dragVars,
                cancelledRef, runs>>

SetPageSize(value) ==
    /\ OptionsEnabled
    /\ pageSize' = value
    /\ UNCHANGED <<nonOptVars, orientation, margin, centerImage, scaleToFit,
                   svgScale>>

SetOrientation(value) ==
    /\ OptionsEnabled
    /\ orientation' = value
    /\ UNCHANGED <<nonOptVars, pageSize, margin, centerImage, scaleToFit,
                   svgScale>>

\* setMargin(Number(e.target.value))
SetMargin(text) ==
    /\ OptionsEnabled
    /\ margin' = ToNumber(text)
    /\ UNCHANGED <<nonOptVars, pageSize, orientation, centerImage, scaleToFit,
                   svgScale>>

SetCenterImage(checked) ==
    /\ OptionsEnabled
    /\ centerImage' = checked
    /\ UNCHANGED <<nonOptVars, pageSize, orientation, margin, scaleToFit,
                   svgScale>>

SetScaleToFit(checked) ==
    /\ OptionsEnabled
    /\ scaleToFit' = checked
    /\ UNCHANGED <<nonOptVars, pageSize, orientation, margin, centerImage,
                   svgScale>>

\* setSvgScale(Number(e.target.value)): the select is rendered for SVG input.
SetSvgScale(text) ==
    /\ OptionsEnabled
    /\ ShowSvgQuality
    /\ svgScale' = ToNumber(text)
    /\ UNCHANGED <<nonOptVars, pageSize, orientation, margin, centerImage,
                   scaleToFit>>

\* Picking files, setting the page options and converting with them, each run
\* left to end by itself.
NextOptions ==
    \/ \E k \in 1..MaxIds : HandleFilesSelected(k)
    \/ HandleClearAll
    \/ \E v \in PageSizeValues : SetPageSize(v)
    \/ \E v \in OrientationValues : SetOrientation(v)
    \/ \E text \in MarginValues : SetMargin(text)
    \/ \E b \in BOOLEAN : SetCenterImage(b)
    \/ \E b \in BOOLEAN : SetScaleToFit(b)
    \/ \E text \in SvgScaleValues : SetSvgScale(text)
    \/ HandleConvert(MaxRuns)
    \/ \E r \in 1..Len(runs) : EngineProcessImage(r)
    \/ \E r \in 1..Len(runs) : EngineResolveSuccess(r)
    \/ \E r \in 1..Len(runs), msg \in FailureMessages : EngineResolveFailure(r, msg)

SpecOptions == Init /\ [][NextOptions]_vars

\* The state the option hooks are created with.
InitialOptions ==
    /\ pageSize = "A4"
    /\ orientation = "auto"
    /\ margin = 36
    /\ centerImage = TRUE
    /\ scaleToFit = TRUE
    /\ svgScale = 2

\* What the engine accepts as ImageToPdfOptions.
ValidOptions(o) ==
    /\ o.pageSize \in {"A4", "LETTER", "LEGAL", "A3", "A5", "FIT"}
    /\ o.orientation \in {"auto", "portrait", "landscape"}
    /\ o.margin \in Int /\ o.margin >= 0
    /\ o.svgScale \in Int /\ o.svgScale > 0

\* C14: the options start as A4, auto, 36, centred, scaled to fit, SVG scale 2,
\* and the options every engine call was given have a page size and an
\* orientation of the documented sets, a margin >= 0 and an SVG scale > 0.
C14_OptionsSurface ==
    /\ InitialOptions
    /\ [](\A r \in InFlight : ValidOptions(runs[r].options))

\* C14 witness: a run is in flight with every option changed from its default.
C14_Witness ==
    \E r \in InFlight :
        /\ runs[r].options.pageSize = "FIT"
        /\ runs[r].options.orientation = "landscape"
        /\ runs[r].options.margin = 0
        /\ ~runs[r].options.centerImage
        /\ ~runs[r].options.scaleToFit
        /\ runs[r].options.svgScale = 4

\* C15: handleDragEnd is a move: the list keeps its length and its entries (none
\* lost, duplicated or undefined), the dragged file stands at dragOverIndex, the
\* other files keep their relative order, and both drag indices become null;
\* also when the list changed since handleDragStart / handleDragOver (the
\* placement is asked for only while both indices lie within the list).
C15_DragEndIsMove ==
    [][HandleDragEnd =>
          /\ draggedIndex' = NoIndex
          /\ dragOverIndex' = NoIndex
          /\ Len(files') = Len(files)
          /\ Range(files') = Range(files)
          /\ IF /\ dragOverIndex # NoIndex
                /\ draggedIndex # dragOverIndex
                /\ draggedIndex < Len(files)
                /\ dragOverIndex < Len(files)
             THEN /\ files'[dragOverIndex + 1] = files[draggedIndex + 1]
                  /\ FilterOut(files', files[draggedIndex + 1])
                        = FilterOut(files, files[draggedIndex + 1])
             ELSE files' = files]_vars

\* C16: while status is 'processing' no step changes the files list or any of
\* pageSize, orientation, margin, centerImage, scaleToFit, svgScale, batchMode,
\* imagesPerPdf.
C16_InputsFrozenWhileProcessing ==
    [][status = "processing" =>
          UNCHANGED <<files, optVars, batchMode, imagesPerPdf>>]_vars

\* C17: after handleFilesSelected or handleRemoveFile neither result nor
\* batchResult is non-null.
C17_FileChangeClearsOutputs ==
    [][( \/ \E k \in 1..MaxIds : HandleFilesSelected(k)
         \/ \E id \in 1..MaxIds : HandleRemoveFile(id) )
       => (result' = Null /\ batchResult' = Null)]_vars

\* The runs in flight whose callbacks and continuation still write state: with
\* the flag down, every one of them.
Writers == IF cancelledRef THEN {} ELSE InFlight

\* C18: at most one run in flight can still write status, progress, result,
\* batchResult or error; handleConvert starts a run only when no earlier run
\* can.
C18_SingleWriter ==
    Cardinality(Writers) <= 1

\* C19: result and batchResult are never both non-null.
C19_OutputsExclusive ==
    ~(result # Null /\ batchResult # Null)

\* The await of run r ends: the engine call resolves or throws.
EngineEnds(r) ==
    \/ EngineResolveSuccess(r)
    \/ \E msg \in FailureMessages : EngineResolveFailure(r, msg)
    \/ \E err \in Thrown : EngineThrow(r, err)

\* SpecRace with every engine call ending at some time: the promise of an
\* engine call that can settle is not left pending for ever.
SpecFair ==
    /\ Init
    /\ [][NextRace]_vars
    /\ \A r \in 1..(MaxRuns + 1) : WF_vars(EngineEnds(r))

\* C20: status is 'processing' only while a run is in flight, and, every engine
\* call ending at some time, status 'processing' is always followed by
\* 'complete', 'error' or 'idle'.
C20_RunsTerminate ==
    /\ [](status = "processing" => InFlight # {})
    /\ (status = "processing") ~> (status \in {"complete", "error", "idle"})

\* C20 witness: two runs were started, both awaits have ended, and the outcome
\* of the later one is shown.
C20_Witness ==
    /\ Len(runs) = MaxRuns + 1
    /\ InFlight = {}
    /\ status = "error"
    /\ errorBy = Latest

\* C21: when the last handleDragOver before handleDragEnd was on the dragged
\* item's own index, handleDragEnd leaves the order of files as it is, whatever
\* was dragged over before.
C21_DropOnOwnPositionKeepsOrder ==
    [][(HandleDragEnd /\ lastDragOver = draggedIndex) => files' = files]_vars

====
